---- MODULE Spec2Model ----
(***************************************************************************)
(* A model of process_links.py: the job-definition reader, the resolution  *)
(* of one source through a headless browser, the Base64 detection, the     *)
(* merge / de-duplication of the resolved contents, the two output files   *)
(* and the index.                                                          *)
(*                                                                         *)
(* Text is a sequence of Unicode code points, bytes are a sequence of      *)
(* 0..255.  None (Python's None, or a raised exception where an operator   *)
(* returns "the value or None") is the tuple <<-1>>, which is neither.     *)
(***************************************************************************)
EXTENDS Integers, Sequences, FiniteSets, TLC

None == <<-1>>

Min(S) == CHOOSE x \in S : \A y \in S : x <= y
Max(S) == CHOOSE x \in S : \A y \in S : x >= y

(***************************************************************************)
(* Python str primitives                                                   *)
(***************************************************************************)

\* str.isspace(): what str.strip() and str.split() treat as whitespace
IsSpace(c) ==
  c \in ({9, 10, 11, 12, 13, 28, 29, 30, 31, 32, 133, 160, 5760, 8232, 8233,
          8239, 8287, 12288} \cup (8192..8202))

\* the line boundaries of str.splitlines(); "\r\n" counts as one
IsLineBreak(c) == c \in {10, 11, 12, 13, 28, 29, 30, 133, 8232, 8233}

\* s.strip()
Strip(s) ==
  LET idx == {i \in 1..Len(s) : ~IsSpace(s[i])}
  IN  IF idx = {} THEN <<>> ELSE SubSeq(s, Min(idx), Max(idx))

\* "".join(s.split())
RemoveSpace(s) == SelectSeq(s, LAMBDA c : ~IsSpace(c))

\* s.startswith(p)
StartsWith(s, p) == Len(s) >= Len(p) /\ SubSeq(s, 1, Len(p)) = p

RECURSIVE SplitLines(_)
\* s.splitlines()
SplitLines(s) ==
  IF s = <<>> THEN <<>>
  ELSE LET brk == {i \in 1..Len(s) : IsLineBreak(s[i])}
       IN  IF brk = {} THEN <<s>>
           ELSE LET i == Min(brk)
                    skip == IF s[i] = 13 /\ i < Len(s) /\ s[i + 1] = 10
                            THEN 2 ELSE 1
                IN  <<SubSeq(s, 1, i - 1)>>
                    \o SplitLines(SubSeq(s, i + skip, Len(s)))

RECURSIVE SplitAll(_, _)
\* s.split(sep) for a one-character separator
SplitAll(s, sep) ==
  LET at == {i \in 1..Len(s) : s[i] = sep}
  IN  IF at = {} THEN <<s>>
      ELSE <<SubSeq(s, 1, Min(at) - 1)>>
           \o SplitAll(SubSeq(s, Min(at) + 1, Len(s)), sep)

\* s.split(sep, 1): at most one split, at the first separator
SplitFirst(s, sep) ==
  LET at == {i \in 1..Len(s) : s[i] = sep}
  IN  IF at = {} THEN <<s>>
      ELSE <<SubSeq(s, 1, Min(at) - 1), SubSeq(s, Min(at) + 1, Len(s))>>

RECURSIVE Join(_, _)
\* sep.join(parts)
Join(parts, sep) ==
  IF parts = <<>> THEN <<>>
  ELSE IF Len(parts) = 1 THEN parts[1]
  ELSE parts[1] \o sep \o Join(Tail(parts), sep)

RECURSIVE FromKeysLast(_)
\* FromKeys with a key kept where it occurs last
FromKeysLast(xs) ==
  IF xs = <<>> THEN <<>>
  ELSE LET rest == FromKeysLast(Tail(xs))
       IN  IF \E i \in 1..Len(rest) : rest[i] = Head(xs)
           THEN rest ELSE <<Head(xs)>> \o rest

RECURSIVE FromKeys(_)
\* list(dict.fromkeys(xs)): each key once, at its first position
FromKeys(xs) ==
  IF xs = <<>> THEN <<>>
  ELSE LET init == FromKeys(SubSeq(xs, 1, Len(xs) - 1))
           last == xs[Len(xs)]
       IN  IF \E i \in 1..Len(init) : init[i] = last
           THEN init ELSE Append(init, last)

(***************************************************************************)
(* UTF-8 (bytes.decode('utf-8') and str.encode('utf-8'), both strict)      *)
(***************************************************************************)

IsCont(b) == b \in 128..191

\* the bytes of one code point
EncodeCP(c) ==
  IF c < 128 THEN <<c>>
  ELSE IF c < 2048 THEN <<192 + (c \div 64), 128 + (c % 64)>>
  ELSE IF c < 65536
       THEN <<224 + (c \div 4096), 128 + ((c \div 64) % 64), 128 + (c % 64)>>
  ELSE <<240 + (c \div 262144), 128 + ((c \div 4096) % 64),
         128 + ((c \div 64) % 64), 128 + (c % 64)>>

RECURSIVE Utf8Encode(_)
Utf8Encode(s) ==
  IF s = <<>> THEN <<>> ELSE EncodeCP(Head(s)) \o Utf8Encode(Tail(s))

RECURSIVE Utf8Decode(_)
\* the decoded text, or None for a UnicodeDecodeError
Utf8Decode(b) ==
  IF b = <<>> THEN <<>>
  ELSE
    LET b1 == b[1]
        n  == Len(b)
        \* length of the well-formed sequence starting at b[1], 0 if none
        k  == IF b1 < 128 THEN 1
              ELSE IF b1 \in 194..223 /\ n >= 2 /\ IsCont(b[2]) THEN 2
              ELSE IF b1 = 224 /\ n >= 3 /\ b[2] \in 160..191 /\ IsCont(b[3])
                   THEN 3
              ELSE IF b1 \in ((225..236) \cup {238, 239}) /\ n >= 3
                      /\ IsCont(b[2]) /\ IsCont(b[3]) THEN 3
              ELSE IF b1 = 237 /\ n >= 3 /\ b[2] \in 128..159 /\ IsCont(b[3])
                   THEN 3
              ELSE IF b1 = 240 /\ n >= 4 /\ b[2] \in 144..191 /\ IsCont(b[3])
                      /\ IsCont(b[4]) THEN 4
              ELSE IF b1 \in 241..243 /\ n >= 4 /\ IsCont(b[2]) /\ IsCont(b[3])
                      /\ IsCont(b[4]) THEN 4
              ELSE IF b1 = 244 /\ n >= 4 /\ b[2] \in 128..143 /\ IsCont(b[3])
                      /\ IsCont(b[4]) THEN 4
              ELSE 0
        cp == IF k = 1 THEN b1
              ELSE IF k = 2 THEN (b1 - 192) * 64 + (b[2] - 128)
              ELSE IF k = 3
                   THEN (b1 - 224) * 4096 + (b[2] - 128) * 64 + (b[3] - 128)
              ELSE (b1 - 240) * 262144 + (b[2] - 128) * 4096
                   + (b[3] - 128) * 64 + (b[4] - 128)
    IN  IF k = 0 THEN None
        ELSE LET rest == Utf8Decode(SubSeq(b, k + 1, n))
             IN  IF rest = None THEN None ELSE <<cp>> \o rest

(***************************************************************************)
(* Base64 (base64.b64encode, base64.b64decode over binascii.a2b_base64)    *)
(***************************************************************************)

PAD == 61   \* '='

\* the character of a 6-bit value
B64Char(v) ==
  IF v < 26 THEN 65 + v
  ELSE IF v < 52 THEN 97 + (v - 26)
  ELSE IF v < 62 THEN 48 + (v - 52)
  ELSE IF v = 62 THEN 43 ELSE 47

\* the 6-bit value of a character, 64 for a character outside the alphabet
B64Val(c) ==
  IF c \in 65..90 THEN c - 65
  ELSE IF c \in 97..122 THEN c - 97 + 26
  ELSE IF c \in 48..57 THEN c - 48 + 52
  ELSE IF c = 43 THEN 62
  ELSE IF c = 47 THEN 63 ELSE 64

RECURSIVE b64encode(_)
\* base64.b64encode(b).decode('utf-8')
b64encode(b) ==
  IF b = <<>> THEN <<>>
  ELSE IF Len(b) = 1
       THEN <<B64Char(b[1] \div 4), B64Char((b[1] % 4) * 16), PAD, PAD>>
  ELSE IF Len(b) = 2
       THEN <<B64Char(b[1] \div 4),
              B64Char((b[1] % 4) * 16 + (b[2] \div 16)),
              B64Char((b[2] % 16) * 4), PAD>>
  ELSE <<B64Char(b[1] \div 4),
         B64Char((b[1] % 4) * 16 + (b[2] \div 16)),
         B64Char((b[2] % 16) * 4 + (b[3] \div 64)),
         B64Char(b[3] % 64)>>
       \o b64encode(SubSeq(b, 4, Len(b)))

RECURSIVE a2b_loop(_, _, _, _, _, _, _)
\* the character loop of binascii.a2b_base64: the bytes, or None for
\* binascii.Error.  qp: position in the quad, lc: the bits left over,
\* pads: '=' seen in a row, started: some '=' was seen
a2b_loop(s, strict, qp, lc, pads, started, out) ==
  IF s = <<>> THEN (IF qp # 0 THEN None ELSE out)
  ELSE
    LET c == Head(s)
        v == B64Val(c)
    IN  IF c = PAD
        THEN IF strict /\ qp = 0 /\ out = <<>> THEN None
             ELSE IF qp >= 2 /\ qp + pads + 1 >= 4
                  THEN (IF strict /\ Len(s) > 1 THEN None ELSE out)
             ELSE a2b_loop(Tail(s), strict, qp, lc,
                           IF qp >= 2 THEN pads + 1 ELSE pads, TRUE, out)
        ELSE IF v = 64
             THEN (IF strict THEN None
                   ELSE a2b_loop(Tail(s), strict, qp, lc, pads, started, out))
        ELSE IF strict /\ started THEN None
        ELSE IF qp = 0 THEN a2b_loop(Tail(s), strict, 1, v, 0, started, out)
        ELSE IF qp = 1
             THEN a2b_loop(Tail(s), strict, 2, v % 16, 0, started,
                           Append(out, lc * 4 + (v \div 16)))
        ELSE IF qp = 2
             THEN a2b_loop(Tail(s), strict, 3, v % 4, 0, started,
                           Append(out, lc * 16 + (v \div 4)))
        ELSE a2b_loop(Tail(s), strict, 0, 0, 0, started,
                      Append(out, lc * 64 + v))

\* base64.b64decode(s, validate=...): the bytes, or None for binascii.Error
b64decode(s, validate) == a2b_loop(s, validate, 0, 0, 0, FALSE, <<>>)

(***************************************************************************)
(* Configuration and helper functions of process_links.py                  *)
(***************************************************************************)

COMMA == 44   \* ','
PIPE  == 124  \* '|'
HASH  == 35   \* '#'
LF    == 10   \* '\n'

NORMAL_DIR == <<110, 111, 114, 109, 97, 108>>   \* "normal"
BASE64_DIR == <<98, 97, 115, 101, 54, 52>>      \* "base64"
TXT_EXT == <<46, 116, 120, 116>>                \* ".txt"
B64_EXT == <<46, 98, 54, 52>>                   \* ".b64"
SLASH == <<47>>                                 \* "/"
GITHUB_COM == <<103, 105, 116, 104, 117, 98, 46, 99, 111, 109>>
RAW_GITHUB == <<114, 97, 119, 46, 103, 105, 116, 104, 117, 98, 117, 115, 101,
                114, 99, 111, 110, 116, 101, 110, 116, 46, 99, 111, 109>>
BLOB == <<47, 98, 108, 111, 98, 47>>            \* "/blob/"

\* sub in s
Contains(s, sub) ==
  \E i \in 1..(Len(s) - Len(sub) + 1) : SubSeq(s, i, i + Len(sub) - 1) = sub

RECURSIVE Replace(_, _, _)
\* s.replace(old, new), old not empty
Replace(s, old, new) ==
  LET at == {i \in 1..(Len(s) - Len(old) + 1) :
               SubSeq(s, i, i + Len(old) - 1) = old}
  IN  IF at = {} THEN s
      ELSE SubSeq(s, 1, Min(at) - 1) \o new
           \o Replace(SubSeq(s, Min(at) + Len(old), Len(s)), old, new)

convert_github_url_to_raw(url) ==
  IF Contains(url, GITHUB_COM) /\ Contains(url, BLOB)
  THEN Replace(Replace(url, GITHUB_COM, RAW_GITHUB), BLOB, SLASH)
  ELSE url

\* re.match(r'^[A-Za-z0-9+/=\s]+$', t) for a stripped t
MatchesB64Charset(t) ==
  /\ t # <<>>
  /\ \A i \in 1..Len(t) : B64Val(t[i]) < 64 \/ t[i] = PAD \/ IsSpace(t[i])

\* '=' * n
Pads(n) == [i \in 1..n |-> PAD]

is_base64(s) ==
  IF ~MatchesB64Charset(Strip(s)) THEN FALSE
  ELSE LET s_cleaned == RemoveSpace(s)
           s_padded == s_cleaned \o Pads((4 - (Len(s_cleaned) % 4)) % 4)
           decoded_bytes == b64decode(s_padded, TRUE)
       IN  IF decoded_bytes = None THEN FALSE
           ELSE b64encode(decoded_bytes) = s_padded

\* ProcessContent with the decoded bytes read as Latin-1
ProcessContentLatin1(content) ==
  IF is_base64(content)
  THEN b64decode(RemoveSpace(content), FALSE)
  ELSE content

\* lines 94-104 of get_processed_content_from_url: what is returned for the
\* page text `content`, None when the decoding raises
ProcessContent(content) ==
  IF is_base64(content)
  THEN LET cleaned_content == RemoveSpace(content)
           raw == b64decode(cleaned_content, FALSE)
       IN  IF raw = None THEN None ELSE Utf8Decode(raw)
  ELSE content

\* TotalLines with the contents joined as they are
TotalLinesNoStrip(all_contents) == SplitLines(Join(all_contents, <<LF>>))

\* lines 164-165 of main: the lines of the joined, stripped contents
TotalLines(all_contents) ==
  SplitLines(Join([i \in 1..Len(all_contents) |-> Strip(all_contents[i])],
                  <<LF>>))

\* line 168 of main
UniqueLines(all_contents) ==
  FromKeys(SelectSeq(TotalLines(all_contents), LAMBDA l : Strip(l) # <<>>))

\* line 171 of main
FinalContent(all_contents) == Join(UniqueLines(all_contents), <<LF>>)

\* line 176 of main
Base64FinalContent(final_content) == b64encode(Utf8Encode(final_content))

NormalPath(name) == NORMAL_DIR \o SLASH \o name \o TXT_EXT
Base64Path(name) == BASE64_DIR \o SLASH \o name \o B64_EXT

\* Path.write_text: the file system with `path` holding `text`
WriteText(fs, path, text) ==
  [p \in (DOMAIN fs) \cup {path} |-> IF p = path THEN text ELSE fs[p]]

RECURSIVE StrLE(_, _)
\* a <= b for Python strings
StrLE(a, b) ==
  IF a = <<>> THEN TRUE
  ELSE IF b = <<>> THEN FALSE
  ELSE IF a[1] # b[1] THEN a[1] < b[1]
  ELSE StrLE(Tail(a), Tail(b))

RECURSIVE SortedByName(_)
\* sorted(processed_files, key=lambda x: x['name']), a stable sort
SortedByName(fs) ==
  IF fs = <<>> THEN <<>>
  ELSE LET init == SortedByName(SubSeq(fs, 1, Len(fs) - 1))
           x == fs[Len(fs)]
           k == Cardinality({i \in 1..Len(init) : StrLE(init[i].name, x.name)})
       IN  SubSeq(init, 1, k) \o <<x>> \o SubSeq(init, k + 1, Len(init))

(***************************************************************************)
(* Inputs: the job-definition files and the networks of the checks         *)
(***************************************************************************)

\* all sequences over S of length at most n
SeqsUpTo(S, n) == UNION {[1..k -> S] : k \in 0..n}

URL_A == <<104, 116, 116, 112, 58, 47, 47, 97>>          \* "http://a"
URL_B == <<104, 116, 116, 112, 115, 58, 47, 47, 98>>     \* "https://b"
\* "https://raw.githubusercontent.com/u/f"
URL_RAW == <<104, 116, 116, 112, 115, 58, 47, 47, 114, 97, 119, 46, 103, 105,
             116, 104, 117, 98, 117, 115, 101, 114, 99, 111, 110, 116, 101,
             110, 116, 46, 99, 111, 109, 47, 117, 47, 102>>

\* --- runs over several jobs ---

MaxLines == 2

LineSet ==
  { <<104, 116, 116, 112, 58, 47, 47, 97, 124, 104, 116, 116, 112, 115, 58,
      47, 47, 98, 44, 97>>,                    \* "http://a|https://b,a"
    <<104, 105, 33, 44, 98>>,                  \* "hi!,b"
    <<35, 32, 99>>,                            \* "# c"
    <<110, 111, 99, 111, 109, 109, 97>>,       \* "nocomma"
    <<32, 104, 116, 116, 112, 115, 58, 47, 47, 98, 32, 124, 32, 104, 105, 33,
      32, 44, 32, 97, 32, 10>>,                \* " https://b | hi! , a \n"
    \* "https://github.com/u/blob/f,g,h"
    <<104, 116, 116, 112, 115, 58, 47, 47, 103, 105, 116, 104, 117, 98, 46,
      99, 111, 109, 47, 117, 47, 98, 108, 111, 98, 47, 102, 44, 103, 44,
      104>> }

LinkFiles == SeqsUpTo(LineSet, MaxLines)

RunNet ==
  [u \in {URL_A, URL_B, URL_RAW} |->
     IF u = URL_A
     THEN { <<120, 10, 121>>,        \* "x\ny"
            <<47, 119, 61, 61>>,     \* "/w==", Base64 of the byte 0xFF
            <<101, 81>> }            \* "eQ", Base64 of "y" without padding
     ELSE IF u = URL_B
     THEN { <<101, 81, 112, 54>> }   \* "eQp6", Base64 of "y\nz"
     ELSE { <<32, 122, 32, 10>> }]   \* " z \n"

\* --- one source, many page texts ---

MaxBytes == 3
MaxBodyLen == 4

\* 'a', '\n', the two bytes of U+00E9, and a byte no UTF-8 text contains
ByteAlphabet == {97, 10, 195, 169, 255}
ByteInputs == SeqsUpTo(ByteAlphabet, MaxBytes)

\* 'Y', 'Q', '/', 'w', '=', '\n', '!'
BodyChars == {89, 81, 47, 119, 61, 10, 33}

ResolveBodies ==
  {b64encode(b) : b \in ByteInputs} \cup SeqsUpTo(BodyChars, MaxBodyLen)

\* "# c", "nocomma", "http://a,a"
ProbeFile ==
  << <<35, 32, 99>>, <<110, 111, 99, 111, 109, 109, 97>>,
     <<104, 116, 116, 112, 58, 47, 47, 97, 44, 97>> >>

ResolveNet == [u \in {URL_A} |-> ResolveBodies]

\* --- one job of two sources, many contents ---

MaxContentLen == 3

\* 'a', 'b', ' ', '\n'
LineChars == {97, 98, 32, 10}

\* "x\n\n\n y \n"
CONTENT_XY == <<120, 10, 10, 10, 32, 121, 32, 10>>

FirstBodies == SeqsUpTo(LineChars, MaxContentLen) \cup {CONTENT_XY}

SecondBodies ==
  { <<97, 10, 99>>,             \* "a\nc"
    <<98, 13, 10, 97, 32>>,     \* "b\r\na "
    <<9>> }                     \* "\t"

\* "# c", "nocomma", "http://a|https://b,a"
BuildFile ==
  << <<35, 32, 99>>, <<110, 111, 99, 111, 109, 109, 97>>,
     <<104, 116, 116, 112, 58, 47, 47, 97, 124, 104, 116, 116, 112, 115, 58,
       47, 47, 98, 44, 97>> >>

BuildNet ==
  [u \in {URL_A, URL_B} |-> IF u = URL_A THEN FirstBodies ELSE SecondBodies]

\* the page texts the named network can serve, by URL
Network(name) ==
  CASE name = "run" -> RunNet
    [] name = "resolve" -> ResolveNet
    [] name = "build" -> BuildNet

(***************************************************************************)
(* The run: main(), with get_processed_content_from_url() inlined          *)
(*                                                                         *)
(* The run starts where links.txt has been read (line 123).  The browser,  *)
(* the network and the file system are the environment: the start of the   *)
(* browser and the load of a page succeed or raise, a page that loads has  *)
(* one of the texts the network serves for its URL, driver.quit() and the  *)
(* two write_text() calls return (the output names of the inputs are file  *)
(* stems).  The sleeps and the prints that no property reads are left out. *)
(***************************************************************************)

VARIABLES
  lines,            \* f.readlines() of links.txt
  net,              \* the environment: the network the run is on
  li,               \* the line the for loop of main is at (1-based)
  pc,               \* the position in the code
  output_name,      \* main's output_name
  individual_urls,  \* main's individual_urls
  ui,               \* the source the inner loop is at (1-based)
  all_contents,     \* main's all_contents
  driver,           \* get_processed_content_from_url's driver is not None
  sessions,         \* the number of browser sessions that are open
  content,          \* the page text read from the browser
  ret,              \* the value get_processed_content_from_url returns
  files,            \* the file system: path |-> text
  processed_files,  \* main's processed_files
  log,              \* what was printed, and what the browser served
  readme            \* the rows update_readme wrote

vars == <<lines, net, li, pc, output_name, individual_urls, ui, all_contents,
          driver, sessions, content, ret, files, processed_files, log, readme>>

\* the line of the loop, stripped (line 126)
CurLine == Strip(lines[li])

\* line 127
IsSkipped(line) == line = <<>> \/ StartsWith(line, <<HASH>>)

\* Parts with a split at every comma
PartsNoLimit(line) == SplitAll(line, COMMA)

\* line 133
Parts(line) == SplitFirst(line, COMMA)

\* line 142
SourcesOf(sources_part) ==
  LET raw == SplitAll(sources_part, PIPE)
  IN  [i \in 1..Len(raw) |-> Strip(raw[i])]

\* line 60, for the source the inner loop is at
processed_url == convert_github_url_to_raw(individual_urls[ui])

\* driver.get() and the page text (lines 79-90): the browser serves what the
\* network has for the URL; a string the network has nothing for (not an
\* absolute URL, no such host) makes driver.get() raise
Served(url) ==
  LET pages == Network(net)
  IN  IF url \in DOMAIN pages THEN pages[url] ELSE {}

Event(type) == [type |-> type, line |-> li, idx |-> ui, url |-> processed_url]

\* lines 125-128: a blank line or a comment
SkipLine ==
  /\ pc = "next_line" /\ li <= Len(lines)
  /\ IsSkipped(CurLine)
  /\ li' = li + 1
  /\ UNCHANGED <<lines, net, pc, output_name, individual_urls, ui,
                 all_contents, driver, sessions, content, ret, files,
                 processed_files, log, readme>>

\* lines 133-136
SkipMalformed ==
  /\ pc = "next_line" /\ li <= Len(lines)
  /\ ~IsSkipped(CurLine)
  /\ Len(Parts(CurLine)) # 2
  /\ log' = Append(log, [type |-> "malformed", line |-> li])
  /\ li' = li + 1
  /\ UNCHANGED <<lines, net, pc, output_name, individual_urls, ui,
                 all_contents, driver, sessions, content, ret, files,
                 processed_files, readme>>

\* lines 133-145
StartJob ==
  /\ pc = "next_line" /\ li <= Len(lines)
  /\ ~IsSkipped(CurLine)
  /\ Len(Parts(CurLine)) = 2
  /\ output_name' = Strip(Parts(CurLine)[2])
  /\ individual_urls' = SourcesOf(Strip(Parts(CurLine)[1]))
  /\ ui' = 1
  /\ all_contents' = <<>>
  /\ log' = Append(log, [type |-> "job", line |-> li,
                         name |-> output_name',
                         sources |-> individual_urls'])
  /\ pc' = "open"
  /\ UNCHANGED <<lines, net, li, driver, sessions, content, ret, files,
                 processed_files, readme>>

\* lines 70-74: the browser starts
OpenBrowser ==
  /\ pc = "open"
  /\ driver' = TRUE
  /\ sessions' = sessions + 1
  /\ pc' = "get"
  /\ UNCHANGED <<lines, net, li, output_name, individual_urls, ui,
                 all_contents, content, ret, files, processed_files, log,
                 readme>>

\* lines 70-74, 102-104: the driver install or the browser start raises
OpenBrowserFails ==
  /\ pc = "open"
  /\ driver' = FALSE
  /\ ret' = None
  /\ log' = Append(log, Event("error"))
  /\ pc' = "finally"
  /\ UNCHANGED <<lines, net, li, output_name, individual_urls, ui,
                 all_contents, sessions, content, files, processed_files,
                 readme>>

\* lines 77-90: the page is loaded and its text read
GetPage ==
  /\ pc = "get"
  /\ \E body \in Served(processed_url) :
       /\ content' = body
       /\ log' = Append(log, [type |-> "page", line |-> li, idx |-> ui,
                              url |-> processed_url, body |-> body])
  /\ pc' = "process"
  /\ UNCHANGED <<lines, net, li, output_name, individual_urls, ui,
                 all_contents, driver, sessions, ret, files, processed_files,
                 readme>>

\* lines 77-90, 102-104: the load or the read raises
GetPageFails ==
  /\ pc = "get"
  /\ ret' = None
  /\ log' = Append(log, Event("error"))
  /\ pc' = "finally"
  /\ UNCHANGED <<lines, net, li, output_name, individual_urls, ui,
                 all_contents, driver, sessions, content, files,
                 processed_files, readme>>

\* lines 94-104: the return value is computed
Process ==
  /\ pc = "process"
  /\ ret' = ProcessContent(content)
  /\ log' = IF ret' = None THEN Append(log, Event("error")) ELSE log
  /\ pc' = "finally"
  /\ UNCHANGED <<lines, net, li, output_name, individual_urls, ui,
                 all_contents, driver, sessions, content, files,
                 processed_files, readme>>

\* Finally with the browser closed only when something is returned
FinallyLeaks ==
  /\ pc = "finally"
  /\ sessions' = IF driver /\ ret # None THEN sessions - 1 ELSE sessions
  /\ driver' = FALSE
  /\ pc' = "collect"
  /\ UNCHANGED <<lines, net, li, output_name, individual_urls, ui,
                 all_contents, content, ret, files, processed_files, log,
                 readme>>

\* lines 105-108, and the return to main
Finally ==
  /\ pc = "finally"
  /\ sessions' = IF driver THEN sessions - 1 ELSE sessions
  /\ driver' = FALSE
  /\ pc' = "collect"
  /\ UNCHANGED <<lines, net, li, output_name, individual_urls, ui,
                 all_contents, content, ret, files, processed_files, log,
                 readme>>

\* Collect with a failure discarding what was collected
CollectDropsOnFailure ==
  /\ pc = "collect"
  /\ IF ret # None
     THEN /\ all_contents' = Append(all_contents, ret)
          /\ log' = Append(log, [type |-> "success", line |-> li, idx |-> ui,
                                 url |-> processed_url, content |-> ret,
                                 line_count |-> Len(SplitLines(ret))])
     ELSE /\ all_contents' = <<>>
          /\ log' = Append(log, Event("failure"))
  /\ IF ui < Len(individual_urls)
     THEN ui' = ui + 1 /\ pc' = "open"
     ELSE ui' = ui /\ pc' = "finish"
  /\ UNCHANGED <<lines, net, li, output_name, individual_urls, driver,
                 sessions, content, ret, files, processed_files, readme>>

\* lines 149-154, and the step of the inner loop
Collect ==
  /\ pc = "collect"
  /\ IF ret # None
     THEN /\ all_contents' = Append(all_contents, ret)
          /\ log' = Append(log, [type |-> "success", line |-> li, idx |-> ui,
                                 url |-> processed_url, content |-> ret,
                                 line_count |-> Len(SplitLines(ret))])
     ELSE /\ all_contents' = all_contents
          /\ log' = Append(log, Event("failure"))
  /\ IF ui < Len(individual_urls)
     THEN ui' = ui + 1 /\ pc' = "open"
     ELSE ui' = ui /\ pc' = "finish"
  /\ UNCHANGED <<lines, net, li, output_name, individual_urls, driver,
                 sessions, content, ret, files, processed_files, readme>>

\* NoContent with the loop over the lines left
NoContentBreaks ==
  /\ pc = "finish"
  /\ all_contents = <<>>
  /\ log' = Append(log, [type |-> "no_content", line |-> li,
                         name |-> output_name])
  /\ li' = Len(lines) + 1
  /\ pc' = "next_line"
  /\ UNCHANGED <<lines, net, output_name, individual_urls, ui, all_contents,
                 driver, sessions, content, ret, files, processed_files,
                 readme>>

\* lines 156-159
NoContent ==
  /\ pc = "finish"
  /\ all_contents = <<>>
  /\ log' = Append(log, [type |-> "no_content", line |-> li,
                         name |-> output_name])
  /\ li' = li + 1
  /\ pc' = "next_line"
  /\ UNCHANGED <<lines, net, output_name, individual_urls, ui, all_contents,
                 driver, sessions, content, ret, files, processed_files,
                 readme>>

\* lines 164-174
WriteNormal ==
  /\ pc = "finish"
  /\ all_contents # <<>>
  /\ files' = WriteText(files, NormalPath(output_name),
                        FinalContent(all_contents))
  /\ pc' = "write_b64"
  /\ UNCHANGED <<lines, net, li, output_name, individual_urls, ui,
                 all_contents, driver, sessions, content, ret,
                 processed_files, log, readme>>

\* WriteBase64 with the encoding taken of the contents as they were joined
WriteBase64BeforeDedup ==
  /\ pc = "write_b64"
  /\ files' = WriteText(files, Base64Path(output_name),
                        Base64FinalContent(Join(TotalLines(all_contents),
                                                <<LF>>)))
  /\ processed_files' =
       Append(processed_files, [name |-> output_name,
                                normal_path |-> NormalPath(output_name),
                                base64_path |-> Base64Path(output_name)])
  /\ log' = Append(log, [type |-> "processed", line |-> li,
                         name |-> output_name])
  /\ li' = li + 1
  /\ pc' = "next_line"
  /\ UNCHANGED <<lines, net, output_name, individual_urls, ui, all_contents,
                 driver, sessions, content, ret, readme>>

\* lines 176-187
WriteBase64 ==
  /\ pc = "write_b64"
  /\ files' = WriteText(files, Base64Path(output_name),
                        Base64FinalContent(FinalContent(all_contents)))
  /\ processed_files' =
       Append(processed_files, [name |-> output_name,
                                normal_path |-> NormalPath(output_name),
                                base64_path |-> Base64Path(output_name)])
  /\ log' = Append(log, [type |-> "processed", line |-> li,
                         name |-> output_name])
  /\ li' = li + 1
  /\ pc' = "next_line"
  /\ UNCHANGED <<lines, net, output_name, individual_urls, ui, all_contents,
                 driver, sessions, content, ret, readme>>

\* line 189, lines 193-211
update_readme ==
  /\ pc = "next_line" /\ li > Len(lines)
  /\ readme' = SortedByName(processed_files)
  /\ pc' = "done"
  /\ UNCHANGED <<lines, net, li, output_name, individual_urls, ui,
                 all_contents, driver, sessions, content, ret, files,
                 processed_files, log>>

Next ==
  \/ SkipLine
  \/ SkipMalformed
  \/ StartJob
  \/ OpenBrowser
  \/ OpenBrowserFails
  \/ GetPage
  \/ GetPageFails
  \/ Process
  \/ Finally
  \/ Collect
  \/ NoContent
  \/ WriteNormal
  \/ WriteBase64
  \/ update_readme

(***************************************************************************)
(* Specifications                                                          *)
(***************************************************************************)

\* the state main is in once links.txt is read (line 123)
Start(file, network) ==
  /\ lines = file
  /\ net = network
  /\ li = 1
  /\ pc = "next_line"
  /\ output_name = <<>>
  /\ individual_urls = <<>>
  /\ ui = 0
  /\ all_contents = <<>>
  /\ driver = FALSE
  /\ sessions = 0
  /\ content = <<>>
  /\ ret = None
  /\ files = <<>>
  /\ processed_files = <<>>
  /\ log = <<>>
  /\ readme = <<>>

Init == \E file \in LinkFiles : Start(file, "run")

Spec == Init /\ [][Next]_vars

InitResolve == Start(ProbeFile, "resolve")

SpecResolve == InitResolve /\ [][Next]_vars

InitBuild == Start(BuildFile, "build")

SpecBuild == InitBuild /\ [][Next]_vars

(***************************************************************************)
(* What the log says about a run                                           *)
(***************************************************************************)

\* the events of one kind printed while the loop was at line l
EventsAt(type, l) == SelectSeq(log, LAMBDA e : e.type = type /\ e.line = l)

\* the lines that were taken as a job
JobLines == {l \in 1..Len(lines) : EventsAt("job", l) # <<>>}

JobName(l) == EventsAt("job", l)[1].name
JobSources(l) == EventsAt("job", l)[1].sources

\* the contents of the sources of job l that resolved, in the order logged
Contents(l) ==
  LET ok == EventsAt("success", l) IN [i \in 1..Len(ok) |-> ok[i].content]

\* job l was reported as processed
Wrote(l) == EventsAt("processed", l) # <<>>

\* job l is writing its two files, or has written them
Writing(l) == Wrote(l) \/ (l = li /\ pc = "write_b64")

\* no later job has touched the files of job l
LastWriter(l) ==
  \A k \in JobLines : (k > l /\ JobName(k) = JobName(l)) => ~Writing(k)

\* a line that is neither blank nor a comment
IsDefinitionLine(l) == LET t == Strip(lines[l]) IN t # <<>> /\ t[1] # HASH

CommaCount(l) ==
  LET t == Strip(lines[l]) IN Cardinality({i \in 1..Len(t) : t[i] = COMMA})

\* the lines of a raw text: the text between its newlines
RawLines(raw) == IF raw = <<>> THEN <<>> ELSE SplitAll(raw, LF)

\* the raw text an artifact is to have by the design: the contents trimmed,
\* joined with a blank line between them, split into lines, the blank lines
\* dropped, each remaining line kept where it first occurs
MergedLines(cs) ==
  SplitLines(Join([i \in 1..Len(cs) |-> Strip(cs[i])], <<LF, LF>>))
KeptLines(cs) == SelectSeq(MergedLines(cs), LAMBDA l : Strip(l) # <<>>)
FirstAt(xs, x) == Min({i \in 1..Len(xs) : xs[i] = x})
\* xs without the elements that occurred before
FirstSeen(xs) ==
  LET keep == {i \in 1..Len(xs) : \A j \in 1..(i - 1) : xs[j] # xs[i]}
      nth(k) == CHOOSE i \in keep : Cardinality({j \in keep : j <= i}) = k
  IN  [k \in 1..Cardinality(keep) |-> xs[nth(k)]]
IsFirstSeenDedup(out, kept) ==
  /\ \A i \in 1..Len(out) : \A j \in 1..Len(out) : i < j => out[i] # out[j]
  /\ {out[i] : i \in 1..Len(out)} = {kept[i] : i \in 1..Len(kept)}
  /\ \A i \in 1..Len(out) : \A j \in 1..Len(out) :
       i < j => FirstAt(kept, out[i]) < FirstAt(kept, out[j])

(***************************************************************************)
(* C1: a job whose every source fails produces no artifact (no raw file,   *)
(* no Base64 file, no entry in processed_files), is reported once as a job *)
(* without content, and every later job of the run is still processed: it  *)
(* is taken as a job, and if a source of it resolves its two files and its *)
(* entry exist; the run ends with the index written from processed_files.  *)
(***************************************************************************)
FullFailureSkipsJob ==
  /\ \A l \in JobLines :
       (l < li /\ EventsAt("success", l) = <<>>) =>
         /\ Len(EventsAt("no_content", l)) = 1
         /\ ~Wrote(l)
         /\ Len(processed_files) = Cardinality({k \in JobLines : Wrote(k)})
         /\ (\A k \in JobLines : JobName(k) = JobName(l) => ~Writing(k))
              => /\ NormalPath(JobName(l)) \notin DOMAIN files
                 /\ Base64Path(JobName(l)) \notin DOMAIN files
                 /\ \A i \in 1..Len(processed_files) :
                      processed_files[i].name # JobName(l)
         /\ \A k \in (l + 1)..(li - 1) :
              (IsDefinitionLine(k) /\ CommaCount(k) = 1) =>
                /\ k \in JobLines
                /\ EventsAt("success", k) # <<>> =>
                     /\ Wrote(k)
                     /\ NormalPath(JobName(k)) \in DOMAIN files
                     /\ Base64Path(JobName(k)) \in DOMAIN files
                     /\ \E i \in 1..Len(processed_files) :
                          processed_files[i].name = JobName(k)
  /\ pc = "done" => li = Len(lines) + 1 /\ Len(readme) = Len(processed_files)

\* a run that ended, with a job that failed as a whole before a job that
\* was written
FullFailureThenSuccess ==
  /\ pc = "done"
  /\ \E l \in JobLines : \E k \in JobLines :
       l < k /\ EventsAt("success", l) = <<>> /\ Wrote(k)

(***************************************************************************)
(* C2: in a job where some sources resolve and others fail, every source   *)
(* is reported exactly once, a failing one as a failure against its own    *)
(* URL, and the raw file holds the raw text built from the contents of the *)
(* resolving sources alone, in their order; this is so for every job of    *)
(* the run, whatever happened in the others.                               *)
(***************************************************************************)
PartialFailureIsolated ==
  \A l \in JobLines :
    l < li =>
      LET n == Len(JobSources(l))
          ok == EventsAt("success", l)
          ko == EventsAt("failure", l)
      IN  /\ Len(ok) + Len(ko) = n
          /\ \A i \in 1..n :
               \/ \E j \in 1..Len(ok) : ok[j].idx = i
               \/ \E j \in 1..Len(ko) :
                    /\ ko[j].idx = i
                    /\ ko[j].url = convert_github_url_to_raw(JobSources(l)[i])
          /\ \A i \in 1..Len(ok) : \A j \in 1..Len(ok) :
               i < j => ok[i].idx < ok[j].idx
          /\ ok # <<>> =>
               /\ Wrote(l)
               /\ LastWriter(l) =>
                    /\ NormalPath(JobName(l)) \in DOMAIN files
                    /\ files[NormalPath(JobName(l))]
                         = Join(FirstSeen(KeptLines(Contents(l))), <<LF>>)

\* a job with a resolving and a failing source was written, after another
\* job of the same run
MixedJobWritten ==
  \E l \in JobLines : \E k \in JobLines :
    /\ k < l /\ l < li
    /\ EventsAt("success", l) # <<>> /\ EventsAt("failure", l) # <<>>
    /\ Wrote(l)

(***************************************************************************)
(* C4: outside the moment between the two writes of a job, an output name  *)
(* has its raw file and its Base64 file together, and the Base64 file is   *)
(* the standard Base64 encoding of the UTF-8 bytes of the raw file:        *)
(* decoding it yields exactly those bytes.  This is so for names that      *)
(* several jobs write, too.                                                *)
(***************************************************************************)
EncodingConsistent ==
  \A l \in JobLines :
    LET raw_path == NormalPath(JobName(l))
        b64_path == Base64Path(JobName(l))
    IN  /\ Wrote(l) => raw_path \in DOMAIN files /\ b64_path \in DOMAIN files
        /\ ~(pc = "write_b64" /\ output_name = JobName(l)) =>
             /\ raw_path \in DOMAIN files <=> b64_path \in DOMAIN files
             /\ raw_path \in DOMAIN files =>
                  /\ b64decode(files[b64_path], TRUE)
                       = Utf8Encode(files[raw_path])
                  /\ files[b64_path] = b64encode(Utf8Encode(files[raw_path]))

\* a run that ended with two jobs written under one output name, the
\* contents of one of them holding a line twice
SharedNameWritten ==
  /\ pc = "done"
  /\ \E l \in JobLines : \E k \in JobLines :
       /\ l < k /\ JobName(l) = JobName(k) /\ Wrote(l) /\ Wrote(k)
       /\ Len(KeptLines(Contents(l))) > Len(FirstSeen(KeptLines(Contents(l))))

(***************************************************************************)
(* C6: a source that is neither a URL (no http:// or https:// prefix) nor  *)
(* valid Base64 resolves to itself: it is never reported as a failure, and *)
(* what it contributes to the contents of its job is its own text.         *)
(***************************************************************************)
IsUrl(src) ==
  \/ StartsWith(src, <<104, 116, 116, 112, 58, 47, 47>>)        \* "http://"
  \/ StartsWith(src, <<104, 116, 116, 112, 115, 58, 47, 47>>)   \* "https://"

PlainTextResolvesToItself ==
  \A l \in JobLines :
    LET plain(i) == ~IsUrl(JobSources(l)[i]) /\ ~is_base64(JobSources(l)[i])
        ok == EventsAt("success", l)
        ko == EventsAt("failure", l)
    IN  /\ \A j \in 1..Len(ko) : ~plain(ko[j].idx)
        /\ \A j \in 1..Len(ok) :
             plain(ok[j].idx) => ok[j].content = JobSources(l)[ok[j].idx]

(***************************************************************************)
(* C7 as stated: a line that is neither blank nor a comment and does not   *)
(* hold exactly one comma is skipped with a warning: nothing of it is      *)
(* resolved or written, and the run goes on.                               *)
(***************************************************************************)
NotOneCommaIsSkipped ==
  /\ \A l \in 1..Len(lines) :
       (l < li /\ IsDefinitionLine(l) /\ CommaCount(l) # 1) =>
         /\ Len(EventsAt("malformed", l)) = 1
         /\ \A i \in 1..Len(log) :
              log[i].line = l => log[i].type = "malformed"
  /\ pc = "done" => li = Len(lines) + 1

(***************************************************************************)
(* C7, amended: a line that is neither blank nor a comment and holds no    *)
(* comma is skipped with a warning: nothing of it is resolved or written,  *)
(* and the run goes on.  A line with two or more commas is not skipped: it *)
(* is split at its first comma, what precedes it being the sources and all *)
(* that follows it, commas included, the output name.                      *)
(***************************************************************************)
OnlyCommalessIsSkipped ==
  /\ \A l \in 1..Len(lines) :
       (l < li /\ IsDefinitionLine(l)) =>
         LET t == Strip(lines[l])
             c == Min({i \in 1..Len(t) : t[i] = COMMA})
             before == SplitAll(Strip(SubSeq(t, 1, c - 1)), PIPE)
             commas == CommaCount(l)
         IN  /\ commas = 0 =>
                  /\ Len(EventsAt("malformed", l)) = 1
                  /\ \A i \in 1..Len(log) :
                       log[i].line = l => log[i].type = "malformed"
             /\ commas >= 2 =>
                  /\ EventsAt("malformed", l) = <<>>
                  /\ Len(EventsAt("job", l)) = 1
                  /\ JobName(l) = Strip(SubSeq(t, c + 1, Len(t)))
                  /\ JobSources(l) = [i \in 1..Len(before) |-> Strip(before[i])]
  /\ Len(processed_files) = Cardinality({k \in JobLines : Wrote(k)})
  /\ pc = "done" => li = Len(lines) + 1

\* a line without a comma was skipped, and a later line with two commas
\* was written as a job
CommalessThenTwoCommas ==
  \E l \in 1..Len(lines) : \E k \in JobLines :
    /\ l < k /\ IsDefinitionLine(l) /\ CommaCount(l) = 0
    /\ CommaCount(k) >= 2 /\ Wrote(k)

(***************************************************************************)
(* C10: a browser session is open only inside the resolution of a source,  *)
(* between the start of the browser and the finally clause; at most one is *)
(* open, and none is open when the resolution has returned, when the next  *)
(* source or job starts or when the run ends, whichever way the resolution *)
(* went.                                                                   *)
(***************************************************************************)
BrowserAlwaysClosed ==
  /\ sessions \in {0, 1}
  /\ sessions = 1 => driver /\ pc \in {"get", "process", "finally"}
  /\ pc \in {"next_line", "open", "collect", "finish", "write_b64", "done"}
       => sessions = 0

\* a run that ended after a source that resolved, a source whose page could
\* not be fetched and a source whose page could not be decoded
AllThreeWaysReturned ==
  /\ pc = "done"
  /\ sessions = 0
  /\ \E i \in 1..Len(log) : log[i].type = "success"
  /\ \E i \in 1..Len(log) :
       /\ log[i].type = "failure"
       /\ \E j \in 1..Len(log) :
            /\ log[j].type = "page"
            /\ log[j].line = log[i].line /\ log[j].idx = log[i].idx
  /\ \E i \in 1..Len(log) :
       /\ log[i].type = "failure"
       /\ \E j \in 1..Len(log) : log[j].type = "job" /\ log[j].line = log[i].line
       /\ \A j \in 1..Len(log) :
            log[j].type = "page" =>
              ~(log[j].line = log[i].line /\ log[j].idx = log[i].idx)

(***************************************************************************)
(* Resolutions that returned, by the page text they were served            *)
(***************************************************************************)

\* the page events whose resolution has returned to main
ReturnedPages ==
  {i \in 1..Len(log) :
     /\ log[i].type = "page"
     /\ \E j \in 1..Len(log) :
          /\ log[j].type \in {"success", "failure"}
          /\ log[j].line = log[i].line /\ log[j].idx = log[i].idx}

\* the resolution of page event i returned the text t
Returned(i, t) ==
  \E j \in 1..Len(log) :
    /\ log[j].type = "success"
    /\ log[j].line = log[i].line /\ log[j].idx = log[i].idx
    /\ log[j].content = t

\* the resolution of page event i returned text of the UTF-8 bytes b
ReturnedBytes(i, b) ==
  \E j \in 1..Len(log) :
    /\ log[j].type = "success"
    /\ log[j].line = log[i].line /\ log[j].idx = log[i].idx
    /\ Utf8Encode(log[j].content) = b

\* the resolution of page event i was a failure
Failed(i) ==
  \E j \in 1..Len(log) :
    /\ log[j].type = "failure"
    /\ log[j].line = log[i].line /\ log[j].idx = log[i].idx

\* the bytes a text is the Base64 encoding of, None if it is that of none
EncodedBytes(body) ==
  LET b == b64decode(body, TRUE)
  IN  IF b # None /\ b64encode(b) = body THEN b ELSE None

\* the bytes the validity check decodes: whitespace stripped, padded to a
\* multiple of 4
CheckedBytes(body) ==
  LET cleaned == RemoveSpace(body)
  IN  b64decode(cleaned \o Pads((4 - (Len(cleaned) % 4)) % 4), TRUE)

(***************************************************************************)
(* C5 as stated: for any byte sequence b, the empty one and those that are *)
(* not valid UTF-8 included, the validity check accepts base64_encode(b),  *)
(* and a page text equal to base64_encode(b) resolves to text whose UTF-8  *)
(* bytes are b.                                                            *)
(***************************************************************************)
Base64RoundTrip ==
  \A i \in ReturnedPages :
    LET b == EncodedBytes(log[i].body)
    IN  b # None => is_base64(log[i].body) /\ ReturnedBytes(i, b)

(***************************************************************************)
(* C5, amended: for any byte sequence b that is not empty and is valid     *)
(* UTF-8, the validity check accepts base64_encode(b), and a page text     *)
(* equal to base64_encode(b) resolves to text whose UTF-8 bytes are b.     *)
(* The encoding of the empty sequence, the empty text, is rejected by the  *)
(* check and resolves to itself; for a b that is not valid UTF-8 the check *)
(* accepts base64_encode(b) and the resolution is a failure.               *)
(***************************************************************************)
Base64RoundTripOfText ==
  \A i \in ReturnedPages :
    LET b == EncodedBytes(log[i].body)
    IN  b # None =>
          /\ (b # <<>> /\ Utf8Decode(b) # None) =>
               is_base64(log[i].body) /\ ReturnedBytes(i, b)
          /\ b = <<>> => ~is_base64(log[i].body) /\ Returned(i, <<>>)
          /\ Utf8Decode(b) = None => is_base64(log[i].body) /\ Failed(i)

\* the Base64 encoding of the two bytes of U+00E9 between two 'a' was
\* served and resolved
EncodedTextResolved ==
  \E i \in ReturnedPages :
    /\ EncodedBytes(log[i].body) = <<97, 195, 169>>
    /\ Returned(i, <<97, 233>>)

(***************************************************************************)
(* C9: for a page text that was fetched, the resolution agrees with the    *)
(* validity check: when the check accepts the text and the bytes it        *)
(* decodes are valid UTF-8, the resolution returns the decoded text, also  *)
(* when the Base64 comes without its trailing '='; when the check rejects  *)
(* the text, the resolution returns the text as it is.                     *)
(***************************************************************************)
ResolutionAgreesWithCheck ==
  \A i \in ReturnedPages :
    LET body == log[i].body
        text == Utf8Decode(CheckedBytes(body))
    IN  /\ (is_base64(body) /\ text # None) => Returned(i, text)
        /\ ~is_base64(body) => Returned(i, body)

(***************************************************************************)
(* C3: the lines of the raw file of a job are the lines of the merged      *)
(* contents that are not empty and not all whitespace, compared as they    *)
(* are, each once and in the order of their first occurrence; none of them *)
(* is empty or all whitespace and none occurs twice.                       *)
(***************************************************************************)
DedupFirstSeen ==
  \A l \in JobLines :
    (Wrote(l) /\ LastWriter(l)) =>
      LET out == RawLines(files[NormalPath(JobName(l))])
      IN  /\ \A i \in 1..Len(out) : Strip(out[i]) # <<>>
          /\ IsFirstSeenDedup(out, KeptLines(Contents(l)))

\* a job whose merged lines are a, b, a, c was written as a, b, c
ABACWritten ==
  \E l \in JobLines :
    /\ Wrote(l)
    /\ KeptLines(Contents(l)) = << <<97>>, <<98>>, <<97>>, <<99>> >>
    /\ RawLines(files[NormalPath(JobName(l))]) = << <<97>>, <<98>>, <<99>> >>

(***************************************************************************)
(* C8 as stated: the single content "x\n\n\n y \n" gives a raw text whose  *)
(* lines are "x" and "y": the second line has no whitespace around it.     *)
(***************************************************************************)
XYLinesTrimmed ==
  \A l \in JobLines :
    (Wrote(l) /\ Contents(l) = <<CONTENT_XY>>) =>
      RawLines(files[NormalPath(JobName(l))]) = << <<120>>, <<121>> >>

(***************************************************************************)
(* C8, amended: the single content "x\n\n\n y \n" gives a raw text whose   *)
(* lines are "x" and " y": the lines that are empty are dropped and the    *)
(* whitespace at the end of the content is trimmed, but the second line    *)
(* keeps the space it begins with.                                         *)
(***************************************************************************)
XYLinesKeepLeadingSpace ==
  \A l \in JobLines :
    (Wrote(l) /\ Contents(l) = <<CONTENT_XY>>) =>
      RawLines(files[NormalPath(JobName(l))]) = << <<120>>, <<32, 121>> >>

\* the content "x\n\n\n y \n" was written as the only content of a job
XYWrittenAlone ==
  \E l \in JobLines :
    /\ Wrote(l)
    /\ Contents(l) = <<CONTENT_XY>>
    /\ EventsAt("failure", l) # <<>>

====
